---- MODULE Spec2Model ----
(***************************************************************************)
(* A model of PyTools: the multi-image comparison tool (core/ClearView.py  *)
(* with core/ImageSwap.py).  The window's state is the ImageViewer's       *)
(* fields, one action per event handler.  The pure functions (scalePoint,  *)
(* QRect normalisation) are operators; they are also exercised on their    *)
(* own, over bounded inputs, by SpecScale and SpecRect.                    *)
(***************************************************************************)
EXTENDS Integers, Sequences, FiniteSets, TLC

VARIABLES
    images,             \* self.images: 4 slots, an image or None
    image_paths,        \* self.image_paths: 4 slots, "" when empty
    begin,              \* self.begin: a point or None
    end,                \* self.end: a point or None
    rect,               \* self.rect: the selection rectangle (a QRect)
    is_drawing,         \* self.is_drawing
    can_draw_rect,      \* self.can_draw_rect
    pixmap_rects,       \* self.pixmap_rects: 4 display rects
    comparison_mode,    \* self.comparison_mode
    labels_visible,     \* self.labels[i].isVisible(), for the 4 labels
    selected_indices,   \* ImageSelector.selected_indices
    active_image_index, \* self.active_image_index, Unset when the attribute is absent
    statusMessage,      \* the text last given to statusBar.showMessage
    probe               \* the call under test of SpecScale / SpecRect

appVars == <<images, image_paths, begin, end, rect, is_drawing, can_draw_rect,
             pixmap_rects, comparison_mode, labels_visible, selected_indices,
             active_image_index, statusMessage>>

vars == <<appVars, probe>>

-----------------------------------------------------------------------------
(* Bounds of the model *)

\* SpecScale, both axes at once: image sides 1..MaxDim, display sides 0..MaxDim
MaxDim == 3
\* SpecScale, one axis at a time: image sides 1..MaxWideImage
MaxWideImage == 30
\* SpecScale, one axis at a time: display sides 0..MaxWideDisplay
MaxWideDisplay == 22
\* SpecScale: how far outside the display rect a pointer position may lie
MaxOutside == 2
\* SpecRect: corner coordinates 0..MaxCoord
MaxCoord == 4
\* Spec: the size in pixels of the central widget that holds the panels
ContainerW == 7
ContainerH == 5
\* Spec: the height of what lies above the central widget (menu, toolbars)
ContainerTop == 1

-----------------------------------------------------------------------------
(* Python values *)

Max(a, b) == IF a >= b THEN a ELSE b
Min(a, b) == IF a <= b THEN a ELSE b

\* Python's None where an image is expected (images[i] before a load)
NoImage == [id |-> "None", w |-> 0, h |-> 0]

\* a decoded QImage: its content (named by the file it came from) and its size
Image(id, w, h) == [id |-> id, w |-> w, h |-> h]

\* `not image` of the source: true of None only (the slots never hold a null QImage)
IsNone(image) == image.id = "None"

QPoint(x, y) == [x |-> x, y |-> y]

-----------------------------------------------------------------------------
(* QRect of Qt 5: the corners (x1, y1), (x2, y2), both inclusive *)

\* QRect(): the null rectangle
QRectNull == [x1 |-> 0, y1 |-> 0, x2 |-> -1, y2 |-> -1]

\* QRect(left, top, width, height)
QRectXYWH(x, y, w, h) == [x1 |-> x, y1 |-> y, x2 |-> x + w - 1, y2 |-> y + h - 1]

\* QRect(topLeft, bottomRight)
QRectPP(p1, p2) == [x1 |-> p1.x, y1 |-> p1.y, x2 |-> p2.x, y2 |-> p2.y]

QRect_left(r) == r.x1
QRect_top(r) == r.y1
QRect_right(r) == r.x2
QRect_bottom(r) == r.y2
QRect_width(r) == r.x2 - r.x1 + 1
QRect_height(r) == r.y2 - r.y1 + 1
QRect_isNull(r) == r.x2 = r.x1 - 1 /\ r.y2 = r.y1 - 1

\* QRect.contains(point) of Qt 5: inside or on an edge, the corners of an axis
\* taken in order first; a rectangle with an empty axis contains no point
QRect_contains(r, p) ==
    LET l == IF r.x2 < r.x1 - 1 THEN r.x2 ELSE r.x1
        rr == IF r.x2 < r.x1 - 1 THEN r.x1 ELSE r.x2
        t == IF r.y2 < r.y1 - 1 THEN r.y2 ELSE r.y1
        b == IF r.y2 < r.y1 - 1 THEN r.y1 ELSE r.y2
    IN  l <= p.x /\ p.x <= rr /\ t <= p.y /\ p.y <= b

\* a normalisation that swaps the vertical corners whatever their order
QRect_normalized_SwapAlways(r) ==
    [x1 |-> IF r.x2 < r.x1 - 1 THEN r.x2 ELSE r.x1,
     x2 |-> IF r.x2 < r.x1 - 1 THEN r.x1 ELSE r.x2,
     y1 |-> r.y2,
     y2 |-> r.y1]

\* a normalisation that never swaps
QRect_normalized_Identity(r) == r

\* QRect.normalized() of Qt 5: the corners of an axis are swapped when the
\* extent on that axis is negative, that is when x2 < x1 - 1
QRect_normalized(r) ==
    [x1 |-> IF r.x2 < r.x1 - 1 THEN r.x2 ELSE r.x1,
     x2 |-> IF r.x2 < r.x1 - 1 THEN r.x1 ELSE r.x2,
     y1 |-> IF r.y2 < r.y1 - 1 THEN r.y2 ELSE r.y1,
     y2 |-> IF r.y2 < r.y1 - 1 THEN r.y1 ELSE r.y2]

-----------------------------------------------------------------------------
(* Python float arithmetic of scalePoint *)

RECURSIVE Pow2(_)
Pow2(n) == IF n <= 0 THEN 1 ELSE 2 * Pow2(n - 1)

\* the largest e >= 0 with den * 2^e <= num  (num >= den >= 1)
RECURSIVE Log2Up(_, _, _)
Log2Up(num, den, e) ==
    IF den * Pow2(e + 1) <= num THEN Log2Up(num, den, e + 1) ELSE e

\* the smallest s >= 0 with num * 2^s >= den  (num, den >= 1)
RECURSIVE Log2Down(_, _, _)
Log2Down(num, den, s) ==
    IF num * Pow2(s) >= den THEN s ELSE Log2Down(num, den, s + 1)

\* floor(log2(num / den))
Log2Floor(num, den) ==
    IF num >= den THEN Log2Up(num, den, 0) ELSE 0 - Log2Down(num, den, 0)

\* (n * 2^k) mod den
RECURSIVE ShiftMod(_, _, _)
ShiftMod(n, k, den) ==
    IF k <= 0 THEN n % den ELSE ShiftMod((2 * n) % den, k - 1, den)

\* int(a * (num / den)) in IEEE-754 double arithmetic, for a >= 0 and
\* num, den >= 1: the division num / den is rounded to 53 bits, the product
\* is rounded again, and int() truncates.  The result is the exact floor
\* unless a * num / den is a whole number N, the quotient was rounded down
\* (by r / (den * 2^(52-E)), E the quotient's exponent) and a times that
\* loss exceeds half the gap between N and the double below it: then the
\* product is a double below N and int() yields N - 1.
FloatMulInt(a, num, den) ==
    LET exact == (a * num) \div den
    IN  IF (a * num) % den # 0 \/ exact = 0 THEN exact
        ELSE LET E == Log2Floor(num, den)
                 r == ShiftMod(num, 52 - E, den)
                 F == Log2Floor(exact, 1)
                 e1 == F - E - (IF Pow2(F) = exact THEN 2 ELSE 1)
                 lhs == IF e1 >= 0 THEN a * r ELSE a * r * Pow2(0 - e1)
                 rhs == IF e1 >= 0 THEN den * Pow2(e1) ELSE den
             IN  IF r = 0 \/ 2 * r >= den THEN exact
                 ELSE IF lhs > rhs THEN exact - 1 ELSE exact

-----------------------------------------------------------------------------
(* ImageViewer.scalePoint *)

\* what a call returns: a pair, or the exception it raised
Returned(x, y) == [x |-> x, y |-> y, raised |-> ""]
Raised(e) == [x |-> 0, y |-> 0, raised |-> e]

\* scalePoint with no guard for the degenerate inputs
scalePoint_NoGuard(point, image, pixmap_rect) ==
    IF IsNone(image) THEN Raised("AttributeError")
    ELSE IF QRect_width(pixmap_rect) = 0 \/ QRect_height(pixmap_rect) = 0
         THEN Raised("ZeroDivisionError")
    ELSE LET adjusted_x == Max(0, Min(point.x - QRect_left(pixmap_rect), QRect_width(pixmap_rect)))
             adjusted_y == Max(0, Min(point.y - QRect_top(pixmap_rect), QRect_height(pixmap_rect)))
         IN  Returned(Max(0, Min(FloatMulInt(adjusted_x, image.w, QRect_width(pixmap_rect)), image.w - 1)),
                      Max(0, Min(FloatMulInt(adjusted_y, image.h, QRect_height(pixmap_rect)), image.h - 1)))

\* scalePoint with the final clamp to the image bounds left out
scalePoint_NoClamp(point, image, pixmap_rect) ==
    IF QRect_width(pixmap_rect) = 0 \/ QRect_height(pixmap_rect) = 0 \/ IsNone(image)
    THEN Returned(0, 0)
    ELSE LET adjusted_x == Max(0, Min(point.x - QRect_left(pixmap_rect), QRect_width(pixmap_rect)))
             adjusted_y == Max(0, Min(point.y - QRect_top(pixmap_rect), QRect_height(pixmap_rect)))
         IN  Returned(FloatMulInt(adjusted_x, image.w, QRect_width(pixmap_rect)),
                      FloatMulInt(adjusted_y, image.h, QRect_height(pixmap_rect)))

\* scalePoint with the scale factor inverted (display size over image size)
scalePoint_InverseScale(point, image, pixmap_rect) ==
    IF QRect_width(pixmap_rect) = 0 \/ QRect_height(pixmap_rect) = 0 \/ IsNone(image)
    THEN Returned(0, 0)
    ELSE LET adjusted_x == Max(0, Min(point.x - QRect_left(pixmap_rect), QRect_width(pixmap_rect)))
             adjusted_y == Max(0, Min(point.y - QRect_top(pixmap_rect), QRect_height(pixmap_rect)))
         IN  Returned(Max(0, Min(FloatMulInt(adjusted_x, QRect_width(pixmap_rect), image.w), image.w - 1)),
                      Max(0, Min(FloatMulInt(adjusted_y, QRect_height(pixmap_rect), image.h), image.h - 1)))

\* scalePoint(point, image, pixmap_rect): label coordinates to image coordinates
scalePoint(point, image, pixmap_rect) ==
    IF QRect_width(pixmap_rect) = 0 \/ QRect_height(pixmap_rect) = 0 \/ IsNone(image)
    THEN Returned(0, 0)
    ELSE LET x0 == point.x - QRect_left(pixmap_rect)
             y0 == point.y - QRect_top(pixmap_rect)
             outside == \/ x0 < 0 \/ x0 > QRect_width(pixmap_rect)
                        \/ y0 < 0 \/ y0 > QRect_height(pixmap_rect)
             adjusted_x == IF outside THEN Max(0, Min(x0, QRect_width(pixmap_rect))) ELSE x0
             adjusted_y == IF outside THEN Max(0, Min(y0, QRect_height(pixmap_rect))) ELSE y0
             image_x == FloatMulInt(adjusted_x, image.w, QRect_width(pixmap_rect))
             image_y == FloatMulInt(adjusted_y, image.h, QRect_height(pixmap_rect))
         IN  Returned(Max(0, Min(image_x, image.w - 1)),
                      Max(0, Min(image_y, image.h - 1)))

\* drawBoxOnImage's scaling of an image coordinate to the label:
\* int(v * scaled_pixmap.width() / image.width()) + x_offset
toDisplay(v, displaySize, imageSize, offset) == ((v * displaySize) \div imageSize) + offset

-----------------------------------------------------------------------------
(* The window after ImageViewer.__init__ *)

Slots == 0 .. 3

\* Python's None for begin, end and for the absent attribute active_image_index;
\* a value that is present is held as a one-element sequence
None == << >>
Some(v) == << v >>

AppInit ==
    /\ images = [i \in Slots |-> NoImage]
    /\ image_paths = [i \in Slots |-> ""]
    /\ begin = None
    /\ end = None
    /\ rect = QRectNull
    /\ is_drawing = FALSE
    /\ can_draw_rect = FALSE
    /\ pixmap_rects = [i \in Slots |-> QRectNull]
    /\ comparison_mode = 2
    /\ labels_visible = [i \in Slots |-> i < comparison_mode]
    /\ selected_indices = << >>
    /\ active_image_index = None
    /\ statusMessage = "2 images comparison mode activated"

-----------------------------------------------------------------------------
(* The image files of the model and what QImage(file_path) makes of them *)

\* two files that decode, to images of different sizes, and one that does not
Files == {"a.png", "b.png", "bad.png"}

\* QImage(file_path); the null image (isNull()) when decoding fails
QImage(file_path) ==
    CASE file_path = "a.png" -> Image("a.png", 2, 1)
      [] file_path = "b.png" -> Image("b.png", 1, 2)
      [] OTHER -> Image("null", 0, 0)

QImage_isNull(image) == image.w = 0 /\ image.h = 0

-----------------------------------------------------------------------------
(* Geometry: the panels (labels) in the window.  Pointer positions are in   *)
(* window coordinates; the window's origin is the origin of the global      *)
(* coordinates.  Lengths are scaled down: the layout's margins and spacing  *)
(* (10 pixels in the source) are 1 pixel here.                              *)

\* self.labels[i].isVisible(), as setupLayout sets it
IsVisible(i, mode) == i < mode

\* self.labels[i].size() in the layout of a mode: two or three panels side by
\* side, or four in a 2x2 grid, sharing the central widget equally
LabelSize(mode) ==
    [w |-> IF mode = 3 THEN (ContainerW - 4) \div 3 ELSE (ContainerW - 3) \div 2,
     h |-> IF mode = 4 THEN (ContainerH - 3) \div 2 ELSE ContainerH - 2]

\* self.labels[i].pos(): the panel's origin in its parent, the central widget;
\* a hidden panel is in no layout and at its parent's origin
LabelPos(i, mode) ==
    IF ~IsVisible(i, mode) THEN QPoint(0, 0)
    ELSE IF mode = 4
         THEN QPoint(1 + (i % 2) * (LabelSize(mode).w + 1),
                     1 + (i \div 2) * (LabelSize(mode).h + 1))
         ELSE QPoint(1 + i * (LabelSize(mode).w + 1), 1)

\* self.labels[i].mapToGlobal(QPoint(0, 0)): the panel's origin in the window
LabelOrigin(i, mode) ==
    IF ~IsVisible(i, mode) THEN QPoint(0, 0)
    ELSE QPoint(LabelPos(i, mode).x, ContainerTop + LabelPos(i, mode).y)

\* self.labels[i].mapFromParent(point): the point less the panel's pos()
mapFromParent(i, mode, point) ==
    QPoint(point.x - LabelPos(i, mode).x, point.y - LabelPos(i, mode).y)

\* the pointer positions of the model: every pixel of the window
WindowPositions ==
    { QPoint(x, y) : x \in 0 .. (ContainerW - 1), y \in 0 .. (ContainerTop + ContainerH - 1) }

\* QPixmap.scaled(w, h, Qt.KeepAspectRatio): the size of the scaled pixmap
\* (QSize.scaled, each side at least 1; a null pixmap for an empty target)
ScaledSize(image, size) ==
    IF size.w <= 0 \/ size.h <= 0 THEN [w |-> 0, h |-> 0]
    ELSE LET rw == (size.h * image.w) \div image.h
         IN  IF rw <= size.w
             THEN [w |-> Max(rw, 1), h |-> Max(size.h, 1)]
             ELSE [w |-> Max(size.w, 1), h |-> Max((size.w * image.h) \div image.w, 1)]

\* drawBoxOnImage: the rect it stores in self.pixmap_rects[index], the scaled
\* image centred in the label
DisplayRect(image, size) ==
    LET scaled == ScaledSize(image, size)
    IN  QRectXYWH((size.w - scaled.w) \div 2, (size.h - scaled.h) \div 2, scaled.w, scaled.h)

\* updatePixmap: every visible panel with an image is drawn by drawBoxOnImage,
\* which stores the panel's display rect; nothing else of the state is written
updatePixmap(imgs, mode, prs) ==
    [i \in Slots |->
        IF i < mode /\ ~IsNone(imgs[i]) THEN DisplayRect(imgs[i], LabelSize(mode)) ELSE prs[i]]

\* isPointInImage(point, index)
isPointInImage(point, index, mode, visible, prs) ==
    IF index >= 4 \/ ~visible[index] THEN FALSE
    ELSE LET label_rect == QRectXYWH(LabelOrigin(index, mode).x, LabelOrigin(index, mode).y,
                                     LabelSize(mode).w, LabelSize(mode).h)
         IN  IF ~QRect_contains(label_rect, point) THEN FALSE
             ELSE QRect_contains(prs[index], mapFromParent(index, mode, point))

\* findImageAtPoint(point): the first panel with an image under the point, or -1
findImageAtPoint(point, imgs, mode, visible, prs) ==
    LET hits == { i \in 0 .. (mode - 1) :
                    ~IsNone(imgs[i]) /\ isPointInImage(point, i, mode, visible, prs) }
    IN  IF hits = {} THEN -1 ELSE CHOOSE i \in hits : \A j \in hits : i <= j

-----------------------------------------------------------------------------
(* ImageSwapHandler.swap_images *)

\* what swap_images leaves behind: the two lists, the status message, and the
\* exception that left it ("" when it returned)
SwapResult(imgs, paths, status, raised) ==
    [images |-> imgs, image_paths |-> paths, statusMessage |-> status, raised |-> raised]

\* the two entries at index1 and index2 of a list exchanged
Exchanged(list, index1, index2) ==
    [list EXCEPT ![index1] = list[index2], ![index2] = list[index1]]

\* swap_images that copies the second slot over the first and loses the first
swap_images_Overwrite(index1, index2, imgs, paths, status) ==
    IF index1 = index2 THEN SwapResult(imgs, paths, status, "")
    ELSE IF index1 < 0 \/ index1 >= 4 \/ index2 < 0 \/ index2 >= 4
         THEN SwapResult(imgs, paths, status, "")
    ELSE IF IsNone(imgs[index1]) \/ IsNone(imgs[index2])
         THEN SwapResult(imgs, paths, "Cannot swap - one or both panels have no image", "")
    ELSE SwapResult([imgs EXCEPT ![index1] = imgs[index2]],
                    [paths EXCEPT ![index1] = paths[index2]], status, "")

\* swap_images that exchanges the images and forgets the paths
swap_images_ImagesOnly(index1, index2, imgs, paths, status) ==
    IF index1 = index2 THEN SwapResult(imgs, paths, status, "")
    ELSE IF index1 < 0 \/ index1 >= 4 \/ index2 < 0 \/ index2 >= 4
         THEN SwapResult(imgs, paths, status, "")
    ELSE IF IsNone(imgs[index1]) \/ IsNone(imgs[index2])
         THEN SwapResult(imgs, paths, "Cannot swap - one or both panels have no image", "")
    ELSE SwapResult(Exchanged(imgs, index1, index2), paths, status, "")

\* swap_images without its checks of the indices and of the slots
swap_images_Unchecked(index1, index2, imgs, paths, status) ==
    IF index1 \notin Slots \/ index2 \notin Slots
    THEN SwapResult(imgs, paths, status, "IndexError")
    ELSE SwapResult(Exchanged(imgs, index1, index2),
                    Exchanged(paths, index1, index2), status, "")

\* swap_images(index1, index2) on the lists imgs and paths
swap_images(index1, index2, imgs, paths, status) ==
    IF index1 = index2 THEN SwapResult(imgs, paths, status, "")
    ELSE IF index1 < 0 \/ index1 >= 4 \/ index2 < 0 \/ index2 >= 4
         THEN SwapResult(imgs, paths, status, "")
    ELSE IF IsNone(imgs[index1]) \/ IsNone(imgs[index2])
         THEN SwapResult(imgs, paths, "Cannot swap - one or both panels have no image", "")
    ELSE SwapResult(Exchanged(imgs, index1, index2),
                    Exchanged(paths, index1, index2), status, "")

-----------------------------------------------------------------------------
(* The handlers of the window: one action each *)

\* the value loadImageFromPath(file_path, index) returns
loadImageFromPath_result(file_path, index) ==
    IF index < 0 \/ index >= 4
    THEN FALSE
    ELSE ~QImage_isNull(QImage(file_path))

\* loadImageFromPath that empties the slot when the file does not decode
loadImageFromPath_ClearsOnFailure(file_path, index) ==
    IF index < 0 \/ index >= 4
    THEN UNCHANGED appVars
    ELSE /\ images' = [images EXCEPT ![index] =
                          IF QImage_isNull(QImage(file_path)) THEN NoImage ELSE QImage(file_path)]
         /\ image_paths' = [image_paths EXCEPT ![index] =
                               IF QImage_isNull(QImage(file_path)) THEN "" ELSE file_path]
         /\ statusMessage' = IF QImage_isNull(QImage(file_path))
                             THEN "Failed to load image" ELSE "Image loaded"
         /\ rect' = QRectNull
         /\ pixmap_rects' = updatePixmap(images', comparison_mode, pixmap_rects)
         /\ UNCHANGED <<begin, end, is_drawing, can_draw_rect, comparison_mode, labels_visible,
                        selected_indices, active_image_index>>

\* loadImageFromPath(file_path, index), as openImage and dropEvent call it
loadImageFromPath(file_path, index) ==
    IF index < 0 \/ index >= 4
    THEN UNCHANGED appVars
    ELSE IF ~QImage_isNull(QImage(file_path))
    THEN /\ images' = [images EXCEPT ![index] = QImage(file_path)]
         /\ image_paths' = [image_paths EXCEPT ![index] = file_path]
         /\ statusMessage' = "Image loaded"
         /\ rect' = QRectNull
         /\ pixmap_rects' = updatePixmap(images', comparison_mode, pixmap_rects)
         /\ UNCHANGED <<begin, end, is_drawing, can_draw_rect, comparison_mode, labels_visible,
                        selected_indices, active_image_index>>
    ELSE /\ statusMessage' = "Failed to load image"
         /\ UNCHANGED <<images, image_paths, begin, end, rect, is_drawing, can_draw_rect,
                        pixmap_rects, comparison_mode, labels_visible, selected_indices, active_image_index>>

\* resetImages that clears the images and leaves their paths
resetImages_KeepsPaths(yes) ==
    IF yes
    THEN /\ images' = [i \in Slots |-> NoImage]
         /\ rect' = QRectNull
         /\ begin' = None
         /\ end' = None
         /\ is_drawing' = FALSE
         /\ pixmap_rects' = updatePixmap(images', comparison_mode, pixmap_rects)
         /\ statusMessage' = "All images have been cleared"
         /\ UNCHANGED <<image_paths, can_draw_rect, comparison_mode, labels_visible,
                        selected_indices, active_image_index>>
    ELSE UNCHANGED appVars

\* resetImages, with the answer given to its confirmation dialog
resetImages(yes) ==
    IF yes
    THEN /\ images' = [i \in Slots |-> NoImage]
         /\ image_paths' = [i \in Slots |-> ""]
         /\ rect' = QRectNull
         /\ begin' = None
         /\ end' = None
         /\ is_drawing' = FALSE
         /\ pixmap_rects' = updatePixmap(images', comparison_mode, pixmap_rects)
         /\ statusMessage' = "All images have been cleared"
         /\ UNCHANGED <<can_draw_rect, comparison_mode, labels_visible, selected_indices, active_image_index>>
    ELSE UNCHANGED appVars

\* setComparisonMode without its check of the mode it is given
setComparisonMode_AnyMode(mode) ==
    /\ comparison_mode' = mode
    /\ labels_visible' = [i \in Slots |-> i < mode]
    /\ statusMessage' = "images comparison mode activated"
    /\ pixmap_rects' = updatePixmap(images, mode, pixmap_rects)
    /\ UNCHANGED <<images, image_paths, begin, end, rect, is_drawing, can_draw_rect,
                   active_image_index>>

\* setComparisonMode that empties the slots of the panels it hides
setComparisonMode_DropsHidden(mode) ==
    IF mode # comparison_mode /\ mode \in {2, 3, 4}
    THEN /\ comparison_mode' = mode
         /\ labels_visible' = [i \in Slots |-> i < mode]
         /\ images' = [i \in Slots |-> IF i < mode THEN images[i] ELSE NoImage]
         /\ image_paths' = [i \in Slots |-> IF i < mode THEN image_paths[i] ELSE ""]
         /\ statusMessage' = "images comparison mode activated"
         /\ pixmap_rects' = updatePixmap(images', mode, pixmap_rects)
         /\ UNCHANGED <<begin, end, rect, is_drawing, can_draw_rect, active_image_index>>
    ELSE UNCHANGED <<images, image_paths, begin, end, rect, is_drawing, can_draw_rect,
                     pixmap_rects, comparison_mode, labels_visible, active_image_index,
                     statusMessage>>

\* setComparisonMode(mode), with the setupLayout it calls when the mode
\* changes: the labels' visibility, the status message, then updatePixmap
setComparisonMode(mode) ==
    IF mode # comparison_mode /\ mode \in {2, 3, 4}
    THEN /\ comparison_mode' = mode
         /\ labels_visible' = [i \in Slots |-> i < mode]
         /\ statusMessage' = "images comparison mode activated"
         /\ pixmap_rects' = updatePixmap(images, mode, pixmap_rects)
         /\ UNCHANGED <<images, image_paths, begin, end, rect, is_drawing, can_draw_rect,
                        active_image_index>>
    ELSE UNCHANGED <<images, image_paths, begin, end, rect, is_drawing, can_draw_rect,
                     pixmap_rects, comparison_mode, labels_visible, active_image_index,
                     statusMessage>>

\* a comparison-mode action that rebuilds the selector only when the mode
\* it sets is not the current one
triggerModeAction_OnChangeOnly(mode) ==
    /\ setComparisonMode(mode)
    /\ selected_indices' = IF mode = comparison_mode THEN selected_indices ELSE << >>

\* one of the three comparison-mode actions triggered: setComparisonMode(mode),
\* then the swap handler's updateLayout(mode), which rebuilds the selector
\* with nothing chosen
triggerModeAction(mode) ==
    /\ setComparisonMode(mode)
    /\ selected_indices' = << >>

\* the sequence without its first element equal to v
RECURSIVE Remove(_, _)
Remove(seq, v) ==
    IF seq = << >> THEN << >>
    ELSE IF Head(seq) = v THEN Tail(seq)
    ELSE <<Head(seq)>> \o Remove(Tail(seq), v)

InSeq(seq, v) == \E k \in 1 .. Len(seq) : seq[k] = v

\* onButtonClicked that drops the newest of two chosen panels, not the oldest
onButtonClicked_EvictNewest(index, checked, selected) ==
    IF checked
    THEN IF ~InSeq(selected, index)
         THEN (IF Len(selected) >= 2 THEN <<Head(selected)>> ELSE selected) \o <<index>>
         ELSE selected
    ELSE IF InSeq(selected, index) THEN Remove(selected, index) ELSE selected

\* ImageSelector.onButtonClicked(index, checked): the list it leaves
onButtonClicked(index, checked, selected) ==
    IF checked
    THEN IF ~InSeq(selected, index)
         THEN (IF Len(selected) >= 2 THEN Tail(selected) ELSE selected) \o <<index>>
         ELSE selected
    ELSE IF InSeq(selected, index) THEN Remove(selected, index) ELSE selected

\* a click on selector button `index`: the button toggles (it is checked
\* exactly when its index is chosen), onButtonClicked runs, and the
\* selectionChanged signal runs ImageSwapHandler.onSelectionChanged
clickSelectorButton(index) ==
    /\ index \in 0 .. (comparison_mode - 1)
    /\ selected_indices' = onButtonClicked(index, ~InSeq(selected_indices, index), selected_indices)
    /\ active_image_index' = None
    /\ statusMessage' = CASE Len(selected_indices') = 0 -> "No panels selected"
                          [] Len(selected_indices') = 1 -> "Panel selected. Select another to swap."
                          [] OTHER -> "Panels selected. Press Space to swap."
    /\ UNCHANGED <<images, image_paths, begin, end, rect, is_drawing, can_draw_rect,
                   pixmap_rects, comparison_mode, labels_visible>>

\* handle_keypress that forgets the selection rectangle, as a load does
handle_keypress_Space_ResetsRect ==
    LET swapped == swap_images(selected_indices[1], selected_indices[2],
                               images, image_paths, statusMessage)
    IN  IF Cardinality({ i \in Slots : ~IsNone(images[i]) }) < 2 \/ Len(selected_indices) # 2
        THEN /\ statusMessage' = "Select exactly 2 panels to swap"
             /\ UNCHANGED <<images, image_paths, begin, end, rect, is_drawing, can_draw_rect,
                            pixmap_rects, comparison_mode, labels_visible, selected_indices,
                            active_image_index>>
        ELSE /\ images' = swapped.images
             /\ image_paths' = swapped.image_paths
             /\ rect' = QRectNull
             /\ pixmap_rects' = updatePixmap(images', comparison_mode, pixmap_rects)
             /\ statusMessage' = "Swapped images"
             /\ UNCHANGED <<begin, end, is_drawing, can_draw_rect, comparison_mode,
                            labels_visible, selected_indices, active_image_index>>

\* handle_keypress that swaps the first two panels, whichever are chosen
handle_keypress_Space_FirstTwo ==
    LET swapped == swap_images(0, 1, images, image_paths, statusMessage)
    IN  IF Cardinality({ i \in Slots : ~IsNone(images[i]) }) < 2 \/ Len(selected_indices) # 2
        THEN /\ statusMessage' = "Select exactly 2 panels to swap"
             /\ UNCHANGED <<images, image_paths, begin, end, rect, is_drawing, can_draw_rect,
                            pixmap_rects, comparison_mode, labels_visible, selected_indices,
                            active_image_index>>
        ELSE /\ images' = swapped.images
             /\ image_paths' = swapped.image_paths
             /\ rect' = rect
             /\ pixmap_rects' = updatePixmap(images', comparison_mode, pixmap_rects)
             /\ statusMessage' = "Swapped images"
             /\ UNCHANGED <<begin, end, is_drawing, can_draw_rect, comparison_mode,
                            labels_visible, selected_indices, active_image_index>>

\* keyPressEvent with the Space key: ImageSwapHandler.handle_keypress
handle_keypress_Space ==
    LET loaded_images == { i \in Slots : ~IsNone(images[i]) }
        swapped == swap_images(selected_indices[1], selected_indices[2],
                               images, image_paths, statusMessage)
    IN  IF Cardinality(loaded_images) < 2
        THEN /\ statusMessage' = "Need at least 2 loaded images to swap"
             /\ UNCHANGED <<images, image_paths, begin, end, rect, is_drawing, can_draw_rect,
                            pixmap_rects, comparison_mode, labels_visible, selected_indices, active_image_index>>
        ELSE IF Len(selected_indices) # 2
        THEN /\ statusMessage' = "Select exactly 2 panels to swap"
             /\ UNCHANGED <<images, image_paths, begin, end, rect, is_drawing, can_draw_rect,
                            pixmap_rects, comparison_mode, labels_visible, selected_indices, active_image_index>>
        ELSE /\ images' = swapped.images
             /\ image_paths' = swapped.image_paths
             /\ rect' = rect
             /\ pixmap_rects' = updatePixmap(images', comparison_mode, pixmap_rects)
             /\ statusMessage' = "Swapped images"
             /\ UNCHANGED <<begin, end, is_drawing, can_draw_rect, comparison_mode, labels_visible,
                            selected_indices, active_image_index>>

\* the rect tool's action triggered: it toggles, and enableDrawing reads it
enableDrawing ==
    /\ can_draw_rect' = ~can_draw_rect
    /\ statusMessage' = IF can_draw_rect' THEN "Rectangle drawing enabled - click and drag to draw"
                                          ELSE "Rectangle drawing disabled"
    /\ UNCHANGED <<images, image_paths, begin, end, rect, is_drawing, pixmap_rects,
                   comparison_mode, labels_visible, selected_indices, active_image_index>>

\* mousePressEvent(event): event.button() and event.pos()
mousePressEvent(button, pos) ==
    LET image_index == findImageAtPoint(pos, images, comparison_mode, labels_visible,
                                       pixmap_rects)
        label_pos == mapFromParent(image_index, comparison_mode, pos)
        p == scalePoint(label_pos, images[image_index], pixmap_rects[image_index])
    IN  IF /\ button = "LeftButton" /\ can_draw_rect
           /\ image_index >= 0
           /\ QRect_contains(pixmap_rects[image_index], label_pos)
        THEN /\ begin' = Some(QPoint(p.x, p.y))
             /\ end' = begin'
             /\ rect' = [x1 |-> p.x, y1 |-> p.y, x2 |-> p.x, y2 |-> p.y]
             /\ is_drawing' = TRUE
             /\ active_image_index' = Some(image_index)
             /\ pixmap_rects' = updatePixmap(images, comparison_mode, pixmap_rects)
             /\ UNCHANGED <<images, image_paths, can_draw_rect, comparison_mode, labels_visible,
                            selected_indices, statusMessage>>
        ELSE UNCHANGED appVars

\* mouseMoveEvent(event): event.globalPos(), here the position in the window
mouseMoveEvent(pos) ==
    IF is_drawing /\ can_draw_rect /\ active_image_index # None /\ active_image_index[1] >= 0
    THEN LET image_index == active_image_index[1]
             origin == LabelOrigin(image_index, comparison_mode)
             label_pos == QPoint(pos.x - origin.x, pos.y - origin.y)
             pixmap_rect == pixmap_rects[image_index]
             rel_x == Max(0, Min(label_pos.x - QRect_left(pixmap_rect), QRect_width(pixmap_rect)))
             rel_y == Max(0, Min(label_pos.y - QRect_top(pixmap_rect), QRect_height(pixmap_rect)))
             p == scalePoint(QPoint(QRect_left(pixmap_rect) + rel_x, QRect_top(pixmap_rect) + rel_y),
                             images[image_index], pixmap_rect)
         IN  /\ end' = Some(QPoint(p.x, p.y))
             /\ rect' = QRect_normalized(QRectPP(begin[1], end'[1]))
             /\ pixmap_rects' = updatePixmap(images, comparison_mode, pixmap_rects)
             /\ UNCHANGED <<images, image_paths, begin, is_drawing, can_draw_rect, comparison_mode, labels_visible,
                            selected_indices, active_image_index, statusMessage>>
    ELSE UNCHANGED appVars

\* mouseReleaseEvent(event): event.button()
mouseReleaseEvent(button) ==
    IF button = "LeftButton" /\ is_drawing /\ can_draw_rect
    THEN /\ rect' = QRect_normalized(QRectPP(begin[1], end[1]))
         /\ is_drawing' = FALSE
         /\ active_image_index' = None
         /\ statusMessage' = IF QRect_width(rect') > 0 /\ QRect_height(rect') > 0
                             THEN "Rectangle" ELSE statusMessage
         /\ pixmap_rects' = updatePixmap(images, comparison_mode, pixmap_rects)
         /\ UNCHANGED <<images, image_paths, begin, end, can_draw_rect, comparison_mode, labels_visible,
                        selected_indices>>
    ELSE UNCHANGED appVars

Buttons == {"LeftButton", "RightButton"}

Init == AppInit /\ probe = [call |-> "none"]

Next ==
    \/ \E file_path \in Files, index \in Slots :
          loadImageFromPath(file_path, index) /\ UNCHANGED probe
    \/ \E yes \in BOOLEAN : resetImages(yes) /\ UNCHANGED probe
    \/ \E mode \in {2, 3, 4} : triggerModeAction(mode) /\ UNCHANGED probe
    \/ \E index \in Slots : clickSelectorButton(index) /\ UNCHANGED probe
    \/ handle_keypress_Space /\ UNCHANGED probe
    \/ enableDrawing /\ UNCHANGED probe
    \/ \E button \in Buttons, pos \in WindowPositions :
          mousePressEvent(button, pos) /\ UNCHANGED probe
    \/ \E pos \in WindowPositions : mouseMoveEvent(pos) /\ UNCHANGED probe
    \/ \E button \in Buttons : mouseReleaseEvent(button) /\ UNCHANGED probe

Spec == Init /\ [][Next]_vars

-----------------------------------------------------------------------------
(* SpecDraw: drawing a selection with the mouse in the layout the window    *)
(* starts in, with files loaded into the two panels that layout shows       *)

ShownAtStart == { i \in Slots : IsVisible(i, 2) }

DrawNext ==
    \/ \E file_path \in Files, index \in ShownAtStart :
          loadImageFromPath(file_path, index) /\ UNCHANGED probe
    \/ \E yes \in BOOLEAN : resetImages(yes) /\ UNCHANGED probe
    \/ enableDrawing /\ UNCHANGED probe
    \/ \E button \in Buttons, pos \in WindowPositions :
          mousePressEvent(button, pos) /\ UNCHANGED probe
    \/ \E pos \in WindowPositions : mouseMoveEvent(pos) /\ UNCHANGED probe
    \/ \E button \in Buttons : mouseReleaseEvent(button) /\ UNCHANGED probe

SpecDraw == Init /\ [][DrawNext]_vars

\* a step in which mouseMoveEvent or mouseReleaseEvent normalises the selection
NormalizationStep ==
    /\ is_drawing /\ can_draw_rect
    /\ \/ active_image_index # None /\ \E pos \in WindowPositions : mouseMoveEvent(pos)
       \/ mouseReleaseEvent("LeftButton")

\* the selection has no negative extent and its corners are in order
RectOrdered(r) ==
    /\ QRect_width(r) >= 0
    /\ QRect_height(r) >= 0
    /\ QRect_left(r) <= QRect_right(r)
    /\ QRect_top(r) <= QRect_bottom(r)

\* C7: after every pointer move and every release of a drag, the selection
\* rectangle has width >= 0 and height >= 0 and its top-left corner is
\* component-wise <= its bottom-right corner
Cex_C7_CornersOrderedAfterNormalization ==
    [][NormalizationStep => RectOrdered(rect')]_vars

-----------------------------------------------------------------------------
(* SpecScale: scalePoint on its own, over bounded inputs *)

Pending == [x |-> 0, y |-> 0, raised |-> "pending"]

\* the pointer positions tried on an axis whose display rect starts at `origin`
\* and is `size` wide: every position inside, and up to MaxOutside outside
AxisPositions(origin, size) == (origin - MaxOutside) .. (origin + size + MaxOutside)

ScaleCall(point, image, pixmap_rect) ==
    [point |-> point, image |-> image, pixmap_rect |-> pixmap_rect, result |-> Pending]

\* both axes over small sizes, with and without an image
ScaleInputsSmall ==
    { ScaleCall(QPoint(px, py), image, QRectXYWH(l, t, pw, ph)) :
        <<px, py, image, l, t, pw, ph>> \in
        { q \in ((0 - MaxOutside) .. (1 + MaxDim + MaxOutside))
                \X ((0 - MaxOutside) .. (1 + MaxDim + MaxOutside))
                \X ({ Image("img", w, h) : w \in 1 .. MaxDim, h \in 1 .. MaxDim } \cup { NoImage })
                \X (0 .. 1) \X (0 .. 1) \X (0 .. MaxDim) \X (0 .. MaxDim) :
            /\ q[1] \in AxisPositions(q[4], q[6])
            /\ q[2] \in AxisPositions(q[5], q[7]) } }

\* one axis over a wide range of sizes, the other axis three pixels shown
\* at their own size, the pointer on the middle one
ScaleInputsWideX ==
    { ScaleCall(QPoint(px, 1), Image("img", w, 3), QRectXYWH(1, 0, pw, 3)) :
        <<px, w, pw>> \in
        { q \in ((1 - MaxOutside) .. (1 + MaxWideDisplay + MaxOutside))
                \X (1 .. MaxWideImage) \X (0 .. MaxWideDisplay) :
            q[1] \in AxisPositions(1, q[3]) } }

ScaleInputsWideY ==
    { ScaleCall(QPoint(1, py), Image("img", 3, h), QRectXYWH(0, 1, 3, ph)) :
        <<py, h, ph>> \in
        { q \in ((1 - MaxOutside) .. (1 + MaxWideDisplay + MaxOutside))
                \X (1 .. MaxWideImage) \X (0 .. MaxWideDisplay) :
            q[1] \in AxisPositions(1, q[3]) } }

\* the scenario of the specification: a 400x300 image shown at 200x150
ScaleInputsScenario ==
    { ScaleCall(QPoint(px, py), Image("img", 400, 300), QRectXYWH(0, 0, 200, 150)) :
        px \in {0, 100, 199, 200}, py \in {0, 75, 149, 150} }

ScaleInit ==
    /\ AppInit
    /\ \/ probe \in ScaleInputsSmall
       \/ probe \in ScaleInputsWideX
       \/ probe \in ScaleInputsWideY
       \/ probe \in ScaleInputsScenario

\* the call under test
ScalePointCall ==
    /\ probe.result = Pending
    /\ probe' = [probe EXCEPT !.result = scalePoint(probe.point, probe.image, probe.pixmap_rect)]
    /\ UNCHANGED appVars

ScaleNext == ScalePointCall

SpecScale == ScaleInit /\ [][ScaleNext]_vars

-----------------------------------------------------------------------------
(* Claims about scalePoint, checked under SpecScale *)

ScaleDone == probe.result # Pending
ScaleDegenerate ==
    \/ QRect_width(probe.pixmap_rect) = 0
    \/ QRect_height(probe.pixmap_rect) = 0
    \/ IsNone(probe.image)

\* C1: for every pointer position, inside or outside the display rect, every
\* loaded image and every display rect of non-zero size, scalePoint returns
\* (x, y) with 0 <= x <= width - 1 and 0 <= y <= height - 1.
Thm_C1_ScalePointInBounds ==
    (ScaleDone /\ ~ScaleDegenerate) =>
        /\ probe.result.raised = ""
        /\ 0 <= probe.result.x /\ probe.result.x <= probe.image.w - 1
        /\ 0 <= probe.result.y /\ probe.result.y <= probe.image.h - 1

\* a call with a position left of and below the display rect, answered with
\* the image's last row
Wit_C1_OutsidePoint ==
    /\ ScaleDone /\ ~ScaleDegenerate
    /\ probe.point.x < QRect_left(probe.pixmap_rect)
    /\ probe.point.y > QRect_bottom(probe.pixmap_rect) + 1
    /\ probe.image.h > 1
    /\ probe.result.x = 0
    /\ probe.result.y = probe.image.h - 1

\* the reference mapping of one axis, in exact arithmetic: clamp the offset to
\* [0, displaySize], multiply by imageSize / displaySize, floor, clamp to
\* [0, imageSize - 1]
ReferenceAxis(pos, origin, displaySize, imageSize) ==
    LET rel == Max(0, Min(pos - origin, displaySize))
    IN  Max(0, Min((rel * imageSize) \div displaySize, imageSize - 1))

\* C2: for every pointer position, display rect of non-zero size and image
\* size, scalePoint equals the reference mapping on each axis; with a 400x300
\* image and display rect (0,0,200,150), (100,75) maps to (200,150).
Cex_C2_EqualsReference ==
    (ScaleDone /\ ~ScaleDegenerate) =>
        /\ probe.result.raised = ""
        /\ probe.result.x = ReferenceAxis(probe.point.x, QRect_left(probe.pixmap_rect),
                                          QRect_width(probe.pixmap_rect), probe.image.w)
        /\ probe.result.y = ReferenceAxis(probe.point.y, QRect_top(probe.pixmap_rect),
                                          QRect_height(probe.pixmap_rect), probe.image.h)
        /\ ( /\ probe.image.w = 400 /\ probe.image.h = 300
             /\ probe.pixmap_rect = QRectXYWH(0, 0, 200, 150)
             /\ probe.point = QPoint(100, 75) )
           => (probe.result.x = 200 /\ probe.result.y = 150)

\* the position is strictly inside the display rect: on no edge of it
StrictlyInside(point, r) ==
    /\ QRect_left(r) < point.x /\ point.x < QRect_right(r)
    /\ QRect_top(r) < point.y /\ point.y < QRect_bottom(r)

\* the display position the renderer gives the image point scalePoint returned
BackX == toDisplay(probe.result.x, QRect_width(probe.pixmap_rect), probe.image.w,
                   QRect_left(probe.pixmap_rect))
BackY == toDisplay(probe.result.y, QRect_height(probe.pixmap_rect), probe.image.h,
                   QRect_top(probe.pixmap_rect))

Abs(n) == IF n < 0 THEN 0 - n ELSE n
CeilDiv(a, b) == (a + b - 1) \div b

\* C3 as stated: for every position strictly inside the display rect, mapping
\* it to image coordinates and back gives a position within 1 display pixel
\* of the original on each axis.
Cex_C3_RoundTripWithinOne ==
    (ScaleDone /\ ~ScaleDegenerate /\ StrictlyInside(probe.point, probe.pixmap_rect)) =>
        /\ Abs(BackX - probe.point.x) <= 1
        /\ Abs(BackY - probe.point.y) <= 1

\* C3 amended: for every position inside the display rect, the round trip
\* gives a position within ceil(displaySize / imageSize) display pixels of
\* the original on each axis: 1 pixel when the image is at least as large as
\* the display rect on that axis, more when the image is shown magnified.
Thm_C3_RoundTripWithinScale ==
    (ScaleDone /\ ~ScaleDegenerate /\ QRect_contains(probe.pixmap_rect, probe.point)) =>
        /\ Abs(BackX - probe.point.x)
              <= CeilDiv(QRect_width(probe.pixmap_rect), probe.image.w)
        /\ Abs(BackY - probe.point.y)
              <= CeilDiv(QRect_height(probe.pixmap_rect), probe.image.h)

\* a round trip of a position strictly inside the display rect of an image
\* larger than it, which comes back one pixel off
Wit_C3_OnePixelOff ==
    /\ ScaleDone /\ ~ScaleDegenerate
    /\ StrictlyInside(probe.point, probe.pixmap_rect)
    /\ probe.image.w > QRect_width(probe.pixmap_rect)
    /\ probe.image.h >= QRect_height(probe.pixmap_rect)
    /\ BackX = probe.point.x - 1
    /\ BackY = probe.point.y

\* the window is as __init__ left it
AppAsConstructed ==
    /\ images = [i \in Slots |-> NoImage]
    /\ image_paths = [i \in Slots |-> ""]
    /\ begin = None /\ end = None /\ rect = QRectNull
    /\ ~is_drawing /\ ~can_draw_rect
    /\ pixmap_rects = [i \in Slots |-> QRectNull]
    /\ comparison_mode = 2 /\ selected_indices = << >>
    /\ labels_visible = [i \in Slots |-> i < 2]
    /\ active_image_index = None
    /\ statusMessage = "2 images comparison mode activated"

\* C4: scalePoint returns (0, 0) and raises no error whenever the display rect
\* has zero width or zero height or no image is loaded, for every pointer
\* position; the call changes no state.
Thm_C4_DegenerateIsOrigin ==
    (ScaleDone /\ ScaleDegenerate) =>
        /\ probe.result = Returned(0, 0)
        /\ AppAsConstructed

\* calls answered for a display rect without width, and for no image
Wit_C4_ZeroWidth ==
    /\ ScaleDone
    /\ QRect_width(probe.pixmap_rect) = 0
    /\ QRect_height(probe.pixmap_rect) > 0
    /\ ~IsNone(probe.image)
    /\ probe.point.x > 0 /\ probe.point.y > 0

-----------------------------------------------------------------------------
(* SpecRect: QRect(begin, end).normalized() on its own, over bounded corners *)

\* the corner pairs tried: every pair over 0..MaxCoord, and the pair of the
\* specification's scenario
RectInputs ==
    { <<QPoint(bx, by), QPoint(ex, ey)>> :
        bx \in 0 .. MaxCoord, by \in 0 .. MaxCoord,
        ex \in 0 .. MaxCoord, ey \in 0 .. MaxCoord }
    \cup { <<QPoint(10, 10), QPoint(5, 5)>>, <<QPoint(5, 5), QPoint(10, 10)>> }

RectInit ==
    /\ AppInit
    /\ \E c \in RectInputs :
          probe = [begin |-> c[1], end |-> c[2], calls |-> 0,
                   rect |-> QRectNull, again |-> QRectNull]

\* self.rect = QRect(self.begin, self.end).normalized()
NormalizeCall ==
    /\ probe.calls = 0
    /\ probe' = [probe EXCEPT !.calls = 1,
                              !.rect = QRect_normalized(QRectPP(probe.begin, probe.end))]
    /\ UNCHANGED appVars

\* the rectangle that call produced, normalised once more
NormalizeAgain ==
    /\ probe.calls = 1
    /\ probe' = [probe EXCEPT !.calls = 2, !.again = QRect_normalized(probe.rect)]
    /\ UNCHANGED appVars

RectNext == NormalizeCall \/ NormalizeAgain

SpecRect == RectInit /\ [][RectNext]_vars

-----------------------------------------------------------------------------
(* Claims about rectangle normalisation, checked under SpecRect *)

AxisNormalized(lo, hi, b, e, extent) ==
    /\ IF e = b - 1 THEN lo = b /\ hi = e /\ extent = 0
                    ELSE lo = Min(b, e) /\ hi = Max(b, e)
    /\ extent = hi - lo + 1

Thm_C6_NormalizeIdempotent ==
    probe.calls = 2 =>
        /\ probe.again = probe.rect
        /\ QRect_width(probe.again) = QRect_width(probe.rect)
        /\ QRect_height(probe.again) = QRect_height(probe.rect)

\* a rectangle given with inverted corners, which the first normalisation
\* changed, normalised a second time
Wit_C6_SecondNormalization ==
    /\ probe.calls = 2
    /\ probe.begin.x > probe.end.x + 1 /\ probe.begin.y > probe.end.y + 1
    /\ probe.rect # QRectPP(probe.begin, probe.end)

-----------------------------------------------------------------------------
(* SpecSwap: swap_images called on an image store, and called once more     *)
(* with the same indices                                                    *)

\* what a slot of the store can hold: nothing, or a file loadImageFromPath
\* decoded, together with its path
SlotContents ==
    { [image |-> NoImage, path |-> ""] }
    \cup { [image |-> QImage(f), path |-> f] : f \in { g \in Files : ~QImage_isNull(QImage(g)) } }

\* the indices swap_images is called with: the slots and one index beyond
\* either end of them
SwapIndices == {-1} \cup Slots \cup {4}

\* the selection rectangles of the harness: none, or a committed one; a
\* selection is only ever drawn on a loaded image
SwapRects(imgs) ==
    IF \A i \in Slots : IsNone(imgs[i]) THEN { QRectNull }
    ELSE { QRectNull, QRectPP(QPoint(0, 0), QPoint(0, 0)) }

SwapInit ==
    /\ \E store \in [Slots -> SlotContents] :
          /\ images = [i \in Slots |-> store[i].image]
          /\ image_paths = [i \in Slots |-> store[i].path]
    /\ begin = None
    /\ end = None
    /\ rect \in SwapRects(images)
    /\ is_drawing = FALSE
    /\ can_draw_rect = FALSE
    /\ comparison_mode = 2
    /\ labels_visible = [i \in Slots |-> IsVisible(i, comparison_mode)]
    /\ pixmap_rects = updatePixmap(images, comparison_mode, [i \in Slots |-> QRectNull])
    /\ selected_indices = << >>
    /\ active_image_index = None
    /\ statusMessage = "Image loaded"
    /\ \E index1 \in SwapIndices, index2 \in SwapIndices :
          probe = [calls |-> 0, index1 |-> index1, index2 |-> index2,
                   images |-> images, image_paths |-> image_paths, rect |-> rect,
                   raised |-> ""]

\* self.swap_images(index1, index2), the first and the second time
SwapCall ==
    LET swapped == swap_images(probe.index1, probe.index2, images, image_paths, statusMessage)
    IN  /\ probe.calls < 2
        /\ probe.raised = ""
        /\ images' = swapped.images
        /\ image_paths' = swapped.image_paths
        /\ statusMessage' = swapped.statusMessage
        /\ probe' = [probe EXCEPT !.calls = @ + 1, !.raised = swapped.raised]
        /\ UNCHANGED <<begin, end, rect, is_drawing, can_draw_rect, pixmap_rects,
                       comparison_mode, labels_visible, selected_indices, active_image_index>>

SwapFirst == probe.calls = 0 /\ SwapCall

SwapSecond == probe.calls = 1 /\ SwapCall

SwapNext == SwapFirst \/ SwapSecond

SpecSwap == SwapInit /\ [][SwapNext]_vars

-----------------------------------------------------------------------------
(* Claims about swap_images, checked under SpecSwap *)

\* the store as it was before the first call
BothInRange == probe.index1 \in Slots /\ probe.index2 \in Slots

BothLoadedBefore ==
    /\ BothInRange
    /\ ~IsNone(probe.images[probe.index1])
    /\ ~IsNone(probe.images[probe.index2])

\* the call is one that exchanges: distinct indices, in range, both loaded
Exchanges == probe.index1 # probe.index2 /\ BothLoadedBefore

\* C8: swap_images(A, B) called twice in a row restores the image and the
\* path of all four slots, for every pair of indices and every store
Thm_C8_SwapTwiceRestores ==
    probe.calls = 2 =>
        /\ probe.raised = ""
        /\ images = probe.images
        /\ image_paths = probe.image_paths

\* two exchanging calls have been made on slots holding different images
Wit_C8_SwappedBack ==
    /\ probe.calls = 2
    /\ Exchanges
    /\ probe.images[probe.index1] # probe.images[probe.index2]
    /\ images = probe.images

\* C9: swap_images(i, j) with i # j, both in [0,4) and both slots loaded
\* leaves slot i with slot j's former image and path and slot j with slot
\* i's, leaves the other two slots as they were, and never exchanges one of
\* the two fields without the other: every slot's path is still the path of
\* the image it holds
Thm_C9_ExchangesImageAndPathTogether ==
    (probe.calls = 1 /\ Exchanges) =>
        /\ probe.raised = ""
        /\ images[probe.index1] = probe.images[probe.index2]
        /\ image_paths[probe.index1] = probe.image_paths[probe.index2]
        /\ images[probe.index2] = probe.images[probe.index1]
        /\ image_paths[probe.index2] = probe.image_paths[probe.index1]
        /\ \A k \in Slots \ {probe.index1, probe.index2} :
              images[k] = probe.images[k] /\ image_paths[k] = probe.image_paths[k]
        /\ \A k \in Slots :
              image_paths[k] = (IF IsNone(images[k]) THEN "" ELSE images[k].id)

\* one exchanging call has been made on slots holding different images
Wit_C9_Exchanged ==
    /\ probe.calls = 1
    /\ Exchanges
    /\ probe.images[probe.index1] # probe.images[probe.index2]
    /\ images[probe.index1] = probe.images[probe.index2]
    /\ image_paths # probe.image_paths

\* the call is one swap_images refuses: equal indices, an index outside
\* [0,4), or a slot that holds no image
Refused ==
    \/ probe.index1 = probe.index2
    \/ ~BothInRange
    \/ ~BothLoadedBefore

\* C10: swap_images(i, j) raises no error and leaves the images and paths of
\* all four slots and the selection rectangle unchanged whenever i = j, or
\* an index is outside [0,4), or a slot holds no image
Thm_C10_RefusedSwapChangesNothing ==
    (probe.calls = 1 /\ Refused) =>
        /\ probe.raised = ""
        /\ images = probe.images
        /\ image_paths = probe.image_paths
        /\ rect = probe.rect

\* a call with one slot loaded and the other empty has been refused while a
\* selection was committed
Wit_C10_EmptySlotRefused ==
    /\ probe.calls = 1
    /\ BothInRange
    /\ probe.index1 # probe.index2
    /\ IsNone(probe.images[probe.index1]) # IsNone(probe.images[probe.index2])
    /\ rect # QRectNull
    /\ statusMessage = "Cannot swap - one or both panels have no image"
    /\ images = probe.images

-----------------------------------------------------------------------------
(* SpecSelect: choosing panels in the selector and swapping with the Space  *)
(* key, in every layout, with files loaded into the two panels the window   *)
(* starts with.  A click leaves in probe what it was given.                 *)

\* the click on selector button `index`, remembered in probe
ClickRecorded(index) ==
    /\ clickSelectorButton(index)
    /\ probe' = [call |-> "onButtonClicked", index |-> index,
                 checked |-> ~InSeq(selected_indices, index),
                 before |-> selected_indices]

SelectNext ==
    \/ \E file_path \in Files, index \in ShownAtStart :
          loadImageFromPath(file_path, index) /\ UNCHANGED probe
    \/ \E yes \in BOOLEAN : resetImages(yes) /\ UNCHANGED probe
    \/ \E mode \in {2, 3, 4} : triggerModeAction(mode) /\ UNCHANGED probe
    \/ \E index \in Slots : ClickRecorded(index)
    \/ handle_keypress_Space /\ UNCHANGED probe

SpecSelect == Init /\ [][SelectNext]_vars

\* the status messages that tell the user no swap took place
SkipReports ==
    { "Cannot swap - one or both panels have no image",
      "Need at least 2 loaded images to swap",
      "Select exactly 2 panels to swap" }

\* the Space key reaches swap_images, and swap_images skips the request
SwapRequestSkipped ==
    /\ Cardinality({ i \in Slots : ~IsNone(images[i]) }) >= 2
    /\ Len(selected_indices) = 2
    /\ \/ selected_indices[1] = selected_indices[2]
       \/ selected_indices[1] \notin Slots \/ selected_indices[2] \notin Slots
       \/ IsNone(images[selected_indices[1]])
       \/ IsNone(images[selected_indices[2]])

\* C11: whenever a swap request is skipped (equal or out-of-range indices, or
\* a chosen panel without an image), the status message left once the Space
\* key press has been handled reports that the swap was skipped
Cex_C11_SkippedSwapIsReported ==
    [][(handle_keypress_Space /\ SwapRequestSkipped) => statusMessage' \in SkipReports]_vars

\* no index occurs twice in the list
Distinct(seq) == \A k \in 1 .. Len(seq), l \in 1 .. Len(seq) : seq[k] = seq[l] => k = l

\* what a click on button `index` makes of the chosen-panel list: a panel not
\* yet chosen goes to the end, after the oldest of two has gone; a chosen
\* panel leaves and the other keeps its place
AfterClick(selected, index) ==
    IF ~InSeq(selected, index)
    THEN CASE Len(selected) = 0 -> <<index>>
           [] Len(selected) = 1 -> <<selected[1], index>>
           [] OTHER -> <<selected[2], index>>
    ELSE CASE Len(selected) = 1 -> << >>
           [] selected[1] = index -> <<selected[2]>>
           [] OTHER -> <<selected[1]>>

\* C13: the chosen-panel list always holds at most 2 distinct indices, in the
\* order they were chosen; choosing a third panel removes the one chosen
\* earliest and appends the new one; un-choosing removes exactly that index
Thm_C13_SelectorKeepsNewestTwo ==
    /\ [](Len(selected_indices) <= 2 /\ Distinct(selected_indices))
    /\ [][\A index \in Slots :
             ClickRecorded(index) => selected_indices' = AfterClick(selected_indices, index)]_vars

\* a third panel has just been chosen while two were chosen: the oldest went
Wit_C13_OldestEvicted ==
    /\ probe = [call |-> "onButtonClicked", index |-> 2, checked |-> TRUE, before |-> <<0, 1>>]
    /\ selected_indices = <<1, 2>>

-----------------------------------------------------------------------------
(* SpecKey: the Space key pressed in a window with images loaded, panels    *)
(* chosen and, on a loaded image, a selection committed                     *)

\* the chosen-panel lists the selector can hold in a layout
Selections(mode) ==
    { << >> }
    \cup { <<i>> : i \in 0 .. (mode - 1) }
    \cup { pair \in { <<i, j>> : i \in 0 .. (mode - 1), j \in 0 .. (mode - 1) } :
             pair[1] # pair[2] }

\* the pixels of an image
Pixels(image) == { QPoint(x, y) : x \in 0 .. (image.w - 1), y \in 0 .. (image.h - 1) }

\* the drags a window with these images can have seen: none, or one from a
\* pixel to a pixel of a loaded image
Drags(imgs) ==
    { <<None, None>> }
    \cup UNION { { <<Some(b), Some(e)>> : b \in Pixels(imgs[i]), e \in Pixels(imgs[i]) } :
                 i \in { k \in Slots : ~IsNone(imgs[k]) } }

KeyInit ==
    /\ \E store \in [Slots -> SlotContents] :
          /\ images = [i \in Slots |-> store[i].image]
          /\ image_paths = [i \in Slots |-> store[i].path]
    /\ \E drag \in Drags(images) :
          /\ begin = drag[1]
          /\ end = drag[2]
          /\ rect = IF drag[1] = None THEN QRectNull
                    ELSE QRect_normalized(QRectPP(drag[1][1], drag[2][1]))
    /\ is_drawing = FALSE
    /\ can_draw_rect = (begin # None)
    /\ comparison_mode \in {2, 3, 4}
    /\ labels_visible = [i \in Slots |-> IsVisible(i, comparison_mode)]
    /\ pixmap_rects = updatePixmap(images, comparison_mode, [i \in Slots |-> QRectNull])
    /\ selected_indices \in Selections(comparison_mode)
    /\ active_image_index = None
    /\ statusMessage = CASE Len(selected_indices) = 0 -> "Image loaded"
                         [] Len(selected_indices) = 1 -> "Panel selected. Select another to swap."
                         [] OTHER -> "Panels selected. Press Space to swap."
    /\ probe = [calls |-> 0, images |-> images, image_paths |-> image_paths, rect |-> rect]

\* keyPressEvent with the Space key
KeySpace ==
    /\ probe.calls = 0
    /\ handle_keypress_Space
    /\ probe' = [probe EXCEPT !.calls = 1]

KeyNext == KeySpace

SpecKey == KeyInit /\ [][KeyNext]_vars

\* C12: a Space-triggered swap leaves a committed selection rectangle of
\* positive width and height as it was, whether or not images were exchanged
Thm_C12_SwapKeepsRectangle ==
    (probe.calls = 1 /\ QRect_width(probe.rect) > 0 /\ QRect_height(probe.rect) > 0) =>
        rect = probe.rect

\* the Space key has exchanged two images under a committed selection
Wit_C12_ExchangedUnderRectangle ==
    /\ probe.calls = 1
    /\ QRect_width(probe.rect) > 1
    /\ images # probe.images
    /\ rect = probe.rect

\* the press found exactly two panels chosen and at least two slots loaded
KeyReady ==
    /\ Len(selected_indices) = 2
    /\ Cardinality({ i \in Slots : ~IsNone(probe.images[i]) }) >= 2

\* C14: a Space key press exchanges images only when exactly two panels are
\* chosen and at least two slots hold images, and then it exchanges exactly
\* the two chosen slots; otherwise it changes no image, path or rectangle
Thm_C14_SpaceSwapsChosenPairOnly ==
    probe.calls = 1 =>
        /\ rect = probe.rect
        /\ \/ images = probe.images /\ image_paths = probe.image_paths
           \/ /\ KeyReady
              /\ images = Exchanged(probe.images, selected_indices[1], selected_indices[2])
              /\ image_paths = Exchanged(probe.image_paths, selected_indices[1],
                                         selected_indices[2])

\* the press has exchanged the two chosen panels and left a third, loaded
\* one alone
Wit_C14_ChosenPairExchanged ==
    /\ probe.calls = 1
    /\ KeyReady
    /\ images # probe.images
    /\ images = Exchanged(probe.images, selected_indices[1], selected_indices[2])
    /\ \E k \in Slots : ~InSeq(selected_indices, k) /\ ~IsNone(images[k])

-----------------------------------------------------------------------------
(* SpecFind: findImageAtPoint called with a point of the window, in every   *)
(* layout, for every store, with display rects kept from earlier images     *)

\* what self.pixmap_rects[i] can hold for a panel updatePixmap does not
\* draw: the null rect of __init__, or the rect of an image the panel showed
\* in the four-panel layout
KeptRects == { QRectNull, DisplayRect(QImage("a.png"), LabelSize(4)) }

FindInit ==
    /\ \E store \in [Slots -> SlotContents] :
          /\ images = [i \in Slots |-> store[i].image]
          /\ image_paths = [i \in Slots |-> store[i].path]
    /\ begin = None
    /\ end = None
    /\ rect = QRectNull
    /\ is_drawing = FALSE
    /\ can_draw_rect = FALSE
    /\ comparison_mode \in {2, 3, 4}
    /\ labels_visible = [i \in Slots |-> IsVisible(i, comparison_mode)]
    /\ \E kept \in [Slots -> KeptRects] :
          pixmap_rects = updatePixmap(images, comparison_mode, kept)
    /\ selected_indices = << >>
    /\ active_image_index = None
    /\ statusMessage = "images comparison mode activated"
    /\ \E point \in WindowPositions : probe = [calls |-> 0, point |-> point, result |-> -1]

\* self.findImageAtPoint(point)
FindCall ==
    /\ probe.calls = 0
    /\ probe' = [probe EXCEPT !.calls = 1,
                              !.result = findImageAtPoint(probe.point, images, comparison_mode,
                                                          labels_visible, pixmap_rects)]
    /\ UNCHANGED appVars

FindNext == FindCall

SpecFind == FindInit /\ [][FindNext]_vars

\* the point, a position in the window, is on the image panel i displays
PointOnDisplayedImage(point, i) ==
    /\ i < comparison_mode
    /\ ~IsNone(images[i])
    /\ QRect_contains(pixmap_rects[i],
                      QPoint(point.x - LabelOrigin(i, comparison_mode).x,
                             point.y - LabelOrigin(i, comparison_mode).y))

\* the lowest panel that displays an image under the point, or -1
PanelUnderPoint(point) ==
    LET under == { i \in Slots : PointOnDisplayedImage(point, i) }
    IN  IF under = {} THEN -1 ELSE CHOOSE i \in under : \A j \in under : i <= j

\* the point is inside panel i, a panel of the layout
PointInPanel(point, i) ==
    QRect_contains(QRectXYWH(LabelOrigin(i, comparison_mode).x,
                             LabelOrigin(i, comparison_mode).y,
                             LabelSize(comparison_mode).w, LabelSize(comparison_mode).h),
                   point)

\* C15: findImageAtPoint(p) returns the lowest i < comparison mode whose slot
\* holds an image and whose display rect p lies inside, and -1 when there is
\* none; in mode 4 with images only in panels 0 and 1 it returns -1 for every
\* point inside panels 2 or 3, whatever display rects those panels kept
Cex_C15_FindsPanelUnderPoint ==
    probe.calls = 1 =>
        /\ probe.result = PanelUnderPoint(probe.point)
        /\ ( /\ comparison_mode = 4
             /\ \A i \in Slots : IsNone(images[i]) <=> i \in {2, 3}
             /\ PointInPanel(probe.point, 2) \/ PointInPanel(probe.point, 3) )
           => probe.result = -1

-----------------------------------------------------------------------------
(* SpecMode: changing the layout of a window with files loaded into any of  *)
(* its four slots                                                           *)

\* the modes setComparisonMode is called with: the three of the toolbar and
\* one beyond either end of them
ModeArgs == {1, 2, 3, 4, 5}

ModeNext ==
    \/ \E file_path \in Files, index \in Slots :
          loadImageFromPath(file_path, index) /\ UNCHANGED <<selected_indices, probe>>
    \/ \E yes \in BOOLEAN : resetImages(yes) /\ UNCHANGED <<selected_indices, probe>>
    \/ \E mode \in ModeArgs : setComparisonMode(mode) /\ UNCHANGED <<selected_indices, probe>>

SpecMode == Init /\ [][ModeNext]_vars

\* C16: the comparison mode is always 2, 3 or 4 and exactly the panels below
\* it are visible; setComparisonMode(n) with n in {2,3,4} other than the
\* current mode sets the mode to n and makes exactly panels 0..n-1 visible;
\* with n the current mode or outside {2,3,4} it changes neither
Thm_C16_ModeSelectsVisiblePanels ==
    /\ [](/\ comparison_mode \in {2, 3, 4}
          /\ \A i \in Slots : labels_visible[i] <=> i \in 0 .. (comparison_mode - 1))
    /\ [][\A n \in ModeArgs :
             setComparisonMode(n) =>
                IF n \in {2, 3, 4} /\ n # comparison_mode
                THEN /\ comparison_mode' = n
                     /\ \A i \in Slots : labels_visible'[i] <=> i \in 0 .. (n - 1)
                ELSE comparison_mode' = comparison_mode /\ labels_visible' = labels_visible]_vars

\* the mode has been set to 4 and all four panels are visible
Wit_C16_FourPanelsVisible ==
    /\ comparison_mode = 4
    /\ \A i \in Slots : labels_visible[i]
    /\ statusMessage = "images comparison mode activated"

\* C17: a change of the comparison mode leaves the images and paths of all
\* four slots as they were, hidden slots included, and every visible panel
\* with an image shows that image in the layout's panel size
Thm_C17_ModeChangeKeepsImages ==
    /\ [][(\E n \in ModeArgs : setComparisonMode(n)) =>
             images' = images /\ image_paths' = image_paths]_vars
    /\ [](\A i \in Slots :
             (labels_visible[i] /\ ~IsNone(images[i])) =>
                pixmap_rects[i] = DisplayRect(images[i], LabelSize(comparison_mode)))

\* the mode has been lowered to 2 and the two hidden slots still hold images
Wit_C17_HiddenImagesKept ==
    /\ comparison_mode = 2
    /\ statusMessage = "images comparison mode activated"
    /\ image_paths[2] = "a.png" /\ images[2] = QImage("a.png")
    /\ image_paths[3] = "b.png" /\ images[3] = QImage("b.png")

-----------------------------------------------------------------------------
(* Claims about the mouse handlers, checked under SpecDraw *)

\* a position of the window in the coordinates of panel i
InPanel(pos, i) ==
    QPoint(pos.x - LabelOrigin(i, comparison_mode).x, pos.y - LabelOrigin(i, comparison_mode).y)

\* the image pixel of panel i under a position of the window
ToImageCoords(pos, i) ==
    LET p == scalePoint(InPanel(pos, i), images[i], pixmap_rects[i])
    IN  QPoint(p.x, p.y)

\* the box that spans two points, corners in order
BoundingBox(b, e) ==
    [x1 |-> Min(b.x, e.x), y1 |-> Min(b.y, e.y), x2 |-> Max(b.x, e.x), y2 |-> Max(b.y, e.y)]

\* Idle with the rect tool enabled, and the position on a displayed image
PressOnImage(pos) == ~is_drawing /\ can_draw_rect /\ PanelUnderPoint(pos) >= 0

\* C18: in Idle with the rect tool enabled, a left-button press on the
\* displayed image of a visible panel moves the engine to Dragging, sets
\* begin = end = scalePoint(pos) for that panel, makes the selection a box
\* of width 0 and height 0 at begin, and records the panel as the initiator
Cex_C18_PressStartsDragAtPoint ==
    /\ [](\A pos \in WindowPositions :
             PressOnImage(pos) => ENABLED (mousePressEvent("LeftButton", pos) /\ is_drawing'))
    /\ [][\A pos \in WindowPositions :
             (PressOnImage(pos) /\ mousePressEvent("LeftButton", pos)) =>
                /\ is_drawing'
                /\ begin' = Some(ToImageCoords(pos, PanelUnderPoint(pos)))
                /\ end' = begin'
                /\ QRect_left(rect') = begin'[1].x /\ QRect_top(rect') = begin'[1].y
                /\ QRect_width(rect') = 0 /\ QRect_height(rect') = 0
                /\ active_image_index' = Some(PanelUnderPoint(pos))]_vars

\* Dragging: a drag is in progress with the rect tool enabled and the panel
\* that initiated it on record
Dragging == is_drawing /\ can_draw_rect /\ active_image_index # None

\* C19: while Dragging, every pointer move sets end to scalePoint of the
\* pointer position against the display rect and image of the initiating
\* panel, sets the selection to the normalized bounding box of begin and
\* end, and leaves the engine in Dragging
Cex_C19_MoveTracksInitiatingPanel ==
    /\ [](\A pos \in WindowPositions :
             Dragging => ENABLED (mouseMoveEvent(pos)
                                  /\ end' = Some(ToImageCoords(pos, active_image_index[1]))))
    /\ [][\A pos \in WindowPositions :
             (Dragging /\ mouseMoveEvent(pos)) =>
                /\ end' = Some(ToImageCoords(pos, active_image_index[1]))
                /\ rect' = BoundingBox(begin[1], end'[1])
                /\ is_drawing'
                /\ active_image_index' = active_image_index]_vars

\* C20: every left-button release received while Dragging returns the engine
\* to Idle, leaves the selection equal to the normalized box of begin and
\* end, clears the initiating-panel marker, and reports the rectangle in the
\* status message exactly when its final width and height are both > 0
Cex_C20_ReleaseCommitsBox ==
    /\ [](Dragging => ENABLED (mouseReleaseEvent("LeftButton") /\ ~is_drawing'))
    /\ [][(Dragging /\ mouseReleaseEvent("LeftButton")) =>
             /\ ~is_drawing'
             /\ rect' = BoundingBox(begin[1], end[1])
             /\ active_image_index' = None
             /\ IF QRect_width(rect') > 0 /\ QRect_height(rect') > 0
                THEN statusMessage' = "Rectangle"
                ELSE statusMessage' = statusMessage]_vars

\* ------------------------------------------------------------------
\* Claims about loads, resets and the rect tool during a drag, checked
\* under SpecDraw
\* ------------------------------------------------------------------

\* a load that decodes its file and stores it
SuccessfulLoad ==
    \E file_path \in Files, index \in Slots :
       /\ ~QImage_isNull(QImage(file_path))
       /\ loadImageFromPath(file_path, index)

\* C21: after a successful image load into any panel, and after a confirmed
\* reset, the engine is Idle (is_drawing false) and the selection rectangle
\* is empty, also when the load or reset arrives in the middle of a drag
Cex_C21_LoadAndResetForceIdle ==
    [][(SuccessfulLoad \/ resetImages(TRUE)) => (~is_drawing' /\ QRect_isNull(rect'))]_vars

\* the rect tool was switched off in the middle of a drag
ToolOffMidDrag == is_drawing /\ ~can_draw_rect

\* a pointer move or a button release
MoveOrRelease ==
    \/ \E pos \in WindowPositions : mouseMoveEvent(pos)
    \/ \E button \in Buttons : mouseReleaseEvent(button)

\* C22: toggling the rect tool off while Dragging puts the engine in Idle
\* at once (is_drawing false after enableDrawing) and does not erase the
\* rectangle; pointer moves and releases that follow do not alter the
\* rectangle
Cex_C22_ToolOffEndsDrag ==
    /\ [][(Dragging /\ enableDrawing) => (~is_drawing' /\ rect' = rect)]_vars
    /\ [][(ToolOffMidDrag /\ MoveOrRelease) => rect' = rect]_vars

-----------------------------------------------------------------------------
(* SpecLoad: loadImageFromPath called with every file and every index,
   also indices outside the four slots; probe records the call and the
   value it returned *)

LoadArgs == -1 .. 4

LoadCall(file_path, index) ==
    /\ loadImageFromPath(file_path, index)
    /\ probe' = [call |-> "loadImageFromPath", file_path |-> file_path, index |-> index,
                 result |-> loadImageFromPath_result(file_path, index)]

LoadNext ==
    \/ \E file_path \in Files, index \in LoadArgs : LoadCall(file_path, index)
    \/ \E yes \in BOOLEAN : resetImages(yes) /\ UNCHANGED probe

SpecLoad == Init /\ [][LoadNext]_vars

\* the file does not decode, or the index names no slot
LoadFails(file_path, index) == QImage_isNull(QImage(file_path)) \/ index \notin Slots

\* C23: when decoding fails in loadImageFromPath, or the index is outside
\* [0,4), the call completes and returns False, a decode failure is
\* reported in the status message, and the images and paths of all four
\* slots are unchanged
Thm_C23_FailedLoadChangesNoSlot ==
    /\ [](\A file_path \in Files, index \in LoadArgs : ENABLED LoadCall(file_path, index))
    /\ [][\A file_path \in Files, index \in LoadArgs :
             (LoadFails(file_path, index) /\ LoadCall(file_path, index)) =>
                /\ probe'.result = FALSE
                /\ images' = images
                /\ image_paths' = image_paths
                /\ (index \in Slots => statusMessage' = "Failed to load image")]_vars

\* a decode failure on an empty panel, next to a loaded one, was reported
Wit_C23_DecodeFailureReported ==
    /\ probe.call = "loadImageFromPath"
    /\ probe.file_path = "bad.png"
    /\ probe.index = 1
    /\ probe.result = FALSE
    /\ IsNone(images[1]) /\ image_paths[1] = ""
    /\ ~IsNone(images[0])
    /\ statusMessage = "Failed to load image"

-----------------------------------------------------------------------------
(* SpecRender: one redraw of the window (resizeEvent, which only calls
   updatePixmap) from every store, layout and selection, idle or in a drag,
   with display rects that may date from an earlier label size *)

\* the redraw that also commits the selection it draws
resizeEvent_CommitsRect ==
    /\ pixmap_rects' = updatePixmap(images, comparison_mode, pixmap_rects)
    /\ rect' = QRect_normalized(rect)
    /\ is_drawing' = FALSE
    /\ UNCHANGED <<images, image_paths, begin, end, can_draw_rect, comparison_mode,
                   labels_visible, selected_indices, active_image_index, statusMessage>>

\* resizeEvent(event): updatePixmap draws every visible panel that holds an image
resizeEvent ==
    /\ pixmap_rects' = updatePixmap(images, comparison_mode, pixmap_rects)
    /\ UNCHANGED <<images, image_paths, begin, end, rect, is_drawing, can_draw_rect,
                   comparison_mode, labels_visible, selected_indices, active_image_index,
                   statusMessage>>

\* the panels updatePixmap hands to drawBoxOnImage
Rendered(imgs, mode) == { i \in Slots : i < mode /\ ~IsNone(imgs[i]) }

RenderInit ==
    /\ \E store \in [Slots -> SlotContents] :
          /\ images = [i \in Slots |-> store[i].image]
          /\ image_paths = [i \in Slots |-> store[i].path]
    /\ \E drag \in Drags(images) :
          /\ begin = drag[1]
          /\ end = drag[2]
          /\ rect = IF drag[1] = None THEN QRectNull ELSE QRectPP(drag[1][1], drag[2][1])
    /\ comparison_mode \in {2, 3, 4}
    /\ labels_visible = [i \in Slots |-> IsVisible(i, comparison_mode)]
    /\ is_drawing \in { d \in BOOLEAN : d => (begin # None /\ Rendered(images, comparison_mode) # {}) }
    /\ can_draw_rect = (begin # None)
    /\ active_image_index = IF is_drawing
                            THEN Some(CHOOSE i \in Rendered(images, comparison_mode) :
                                         \A j \in Rendered(images, comparison_mode) : i <= j)
                            ELSE None
    /\ pixmap_rects \in [Slots -> KeptRects]
    /\ selected_indices = << >>
    /\ statusMessage = "Image loaded"
    /\ probe = [calls |-> 0, pixmap_rects |-> pixmap_rects]

RenderCall ==
    /\ probe.calls = 0
    /\ resizeEvent
    /\ probe' = [probe EXCEPT !.calls = 1]

RenderNext == RenderCall

SpecRender == RenderInit /\ [][RenderNext]_vars

\* C24: rendering leaves the selection rectangle, begin, end, the drag
\* state and the images and paths of all slots unchanged, and writes no
\* application state but the display rects of the panels it renders
Thm_C24_RenderWritesDisplayRectsOnly ==
    [][RenderCall =>
          /\ UNCHANGED <<rect, begin, end, is_drawing, active_image_index, images, image_paths>>
          /\ UNCHANGED <<can_draw_rect, comparison_mode, labels_visible, selected_indices,
                         statusMessage>>
          /\ \A i \in Slots \ Rendered(images, comparison_mode) :
                pixmap_rects'[i] = pixmap_rects[i]]_vars

\* a redraw in the middle of a drag gave a rendered panel a new display rect
\* and left an unordered selection as it was
Wit_C24_RedrawDuringDrag ==
    /\ probe.calls = 1
    /\ is_drawing
    /\ QRect_width(rect) = 0
    /\ \E i \in Rendered(images, comparison_mode) : pixmap_rects[i] # probe.pixmap_rects[i]

-----------------------------------------------------------------------------
(* SpecDispatch: the main block of MultiProcess/example.py.  The window
   plays no part and stays as constructed; probe holds the script's
   variables: the number of files os.walk collected, inputNum, block, the
   loop variable bn, the slices handed to the pool, and the exception that
   ended the script, if any. *)

CORENUM == 8

\* infile_list[:1000]
MaxSamples == 1000

\* the most .png files os.walk finds
MaxCollected == 1001

\* block = int(math.ceil(inputNum / CORENUM)): the float quotient by 8 is exact
BlockSize(inputNum) == CeilDiv(inputNum, CORENUM)

DispatchInit ==
    /\ AppInit
    /\ \E collected \in 0 .. MaxCollected :
          LET inputNum == Min(collected, MaxSamples)
          IN  probe = [call |-> "example", pc |-> "range", collected |-> collected,
                       inputNum |-> inputNum, block |-> BlockSize(inputNum),
                       bn |-> 0, ret_list |-> << >>, error |-> ""]

\* range(0, inputNum, block): a step of 0 raises ValueError
RangeCall ==
    /\ probe.pc = "range"
    /\ probe' = IF probe.block = 0
                THEN [probe EXCEPT !.pc = "raised", !.error = "ValueError"]
                ELSE [probe EXCEPT !.pc = "loop"]
    /\ UNCHANGED appVars

\* one pass of the loop body: pool.apply_async on infile_list[bn:endpos]
ApplyAsync ==
    /\ probe.pc = "loop"
    /\ probe.bn < probe.inputNum
    /\ LET endpos == Min(probe.inputNum, probe.bn + probe.block)
       IN  probe' = [probe EXCEPT !.ret_list = Append(@, [bn |-> probe.bn, endpos |-> endpos]),
                                  !.bn = @ + probe.block]
    /\ UNCHANGED appVars

\* the loop is exhausted: pool.close() and pool.join()
CloseAndJoin ==
    /\ probe.pc = "loop"
    /\ probe.bn >= probe.inputNum
    /\ probe' = [probe EXCEPT !.pc = "joined"]
    /\ UNCHANGED appVars

DispatchNext == RangeCall \/ ApplyAsync \/ CloseAndJoin

SpecDispatch == DispatchInit /\ [][DispatchNext]_vars

\* the submitted slices are contiguous, in order, of at most block files
\* each, and together they are exactly the files 0 .. inputNum - 1
ChunksCover(chunks, inputNum, block) ==
    /\ Len(chunks) <= CORENUM
    /\ \A k \in 1 .. Len(chunks) :
          /\ chunks[k].bn < chunks[k].endpos
          /\ chunks[k].endpos - chunks[k].bn <= block
          /\ chunks[k].bn = (IF k = 1 THEN 0 ELSE chunks[k - 1].endpos)
    /\ (IF Len(chunks) = 0 THEN 0 ELSE chunks[Len(chunks)].endpos) = inputNum

\* C25: for every number of collected files the dispatch loop runs without
\* error, and when the pool is closed and joined the submitted chunks are
\* contiguous, of size at most block = ceil(n / 8), at most 8, and cover
\* every file exactly once and in order
Cex_C25_DispatchCoversEveryFile ==
    /\ probe.error = ""
    /\ probe.pc = "joined" => ChunksCover(probe.ret_list, probe.inputNum, probe.block)

-----------------------------------------------------------------------------
(* SpecStore: the operations on the image store in any order: loads,
   resets, layout changes, selector clicks and the Space key *)

\* the slots the loads of SpecStore go to: two that are always visible and
\* one that the two-image layout hides
StoreSlots == { i \in Slots : IsVisible(i, 3) }

StoreNext ==
    \/ \E file_path \in Files, index \in StoreSlots :
          loadImageFromPath(file_path, index) /\ UNCHANGED probe
    \/ \E yes \in BOOLEAN : resetImages(yes) /\ UNCHANGED probe
    \/ \E mode \in {2, 3, 4} : triggerModeAction(mode) /\ UNCHANGED probe
    \/ \E index \in Slots : clickSelectorButton(index) /\ UNCHANGED probe
    \/ handle_keypress_Space /\ UNCHANGED probe

SpecStore == Init /\ [][StoreNext]_vars

\* C26: in every reachable state of the image store a slot holds an image
\* exactly when its stored path is non-empty
Thm_C26_ImageIffPath ==
    \A i \in Slots : ~IsNone(images[i]) <=> image_paths[i] # ""

\* two images were exchanged next to an empty slot
Wit_C26_ExchangedNextToEmptySlot ==
    /\ statusMessage = "Swapped images"
    /\ images[0].id = "b.png" /\ image_paths[0] = "b.png"
    /\ images[2].id = "a.png" /\ image_paths[2] = "a.png"
    /\ IsNone(images[1]) /\ image_paths[1] = ""

\* C27: in every reachable state each panel index chosen in the swap
\* selector is smaller than the comparison mode, and firing any
\* comparison-mode action, also that of the mode already active, leaves
\* the selector with no chosen panel
Thm_C27_SelectorNamesVisiblePanels ==
    /\ [](\A k \in 1 .. Len(selected_indices) :
             selected_indices[k] \in 0 .. (comparison_mode - 1))
    /\ [](\A mode \in {2, 3, 4} : ENABLED (triggerModeAction(mode) /\ selected_indices' = << >>))
    /\ [][\A mode \in {2, 3, 4} : triggerModeAction(mode) => selected_indices' = << >>]_vars

\* the action of the mode already active was fired with two panels chosen:
\* the selector is empty under the status message of the second choice
Wit_C27_ActiveModeActionClearedSelector ==
    /\ selected_indices = << >>
    /\ statusMessage = "Panels selected. Press Space to swap."
    /\ comparison_mode = 3

-----------------------------------------------------------------------------
(* SpecDrag: drawing on the two panels of the start layout, interleaved
   with selector clicks, the Space key, loads and resets *)

\* the files SpecDrag loads: one that decodes and one that does not
DragFiles == { "a.png", "bad.png" }

DragNext ==
    \/ \E file_path \in DragFiles, index \in ShownAtStart :
          loadImageFromPath(file_path, index) /\ UNCHANGED probe
    \/ \E yes \in BOOLEAN : resetImages(yes) /\ UNCHANGED probe
    \/ \E index \in Slots : clickSelectorButton(index) /\ UNCHANGED probe
    \/ handle_keypress_Space /\ UNCHANGED probe
    \/ enableDrawing /\ UNCHANGED probe
    \/ \E button \in Buttons, pos \in WindowPositions :
          mousePressEvent(button, pos) /\ UNCHANGED probe
    \/ \E pos \in WindowPositions : mouseMoveEvent(pos) /\ UNCHANGED probe
    \/ \E button \in Buttons : mouseReleaseEvent(button) /\ UNCHANGED probe

SpecDrag == Init /\ [][DragNext]_vars

\* C28: whenever a drag is in progress the initiating-panel marker is set
\* and names a slot that holds an image, and begin and end are set
Cex_C28_DragKeepsInitiatingPanel ==
    is_drawing =>
        /\ active_image_index # None
        /\ ~IsNone(images[active_image_index[1]])
        /\ begin # None
        /\ end # None

-----------------------------------------------------------------------------
(* A claim about the selection and the images it is drawn on, checked
   under SpecDraw *)

\* rectangle r lies inside the pixels of the image
InsideImage(r, image) ==
    /\ 0 <= QRect_left(r) /\ QRect_right(r) <= image.w - 1
    /\ 0 <= QRect_top(r) /\ QRect_bottom(r) <= image.h - 1

\* C29: whenever the selection rectangle has positive width and height it
\* lies inside the pixel bounds [0, w-1] x [0, h-1] of the image of every
\* visible panel that holds an image
Cex_C29_SelectionInsideEveryImage ==
    (QRect_width(rect) > 0 /\ QRect_height(rect) > 0) =>
        \A i \in Slots :
           (labels_visible[i] /\ ~IsNone(images[i])) => InsideImage(rect, images[i])

-----------------------------------------------------------------------------
(* SpecLaunch: the dual-image viewer of Toolkit/SuperResolution/launch.py.
   It is a program of its own: the window of ClearView plays no part and
   stays as constructed, and probe holds the viewer's fields and the
   exception that left a handler, if any.  label_left is the first of two
   panels side by side in the central widget. *)

\* self.label_left.mapFromParent(pos)
launch_mapFromParent(pos) == QPoint(pos.x - LabelPos(0, 2).x, pos.y - LabelPos(0, 2).y)

\* int(a * (num / den)) for any integer a: int() truncates towards zero
IntOfProduct(a, num, den) ==
    IF a >= 0 THEN FloatMulInt(a, num, den) ELSE 0 - FloatMulInt(0 - a, num, den)

\* scalePoint(point, image, label) of launch.py: no clamping, the whole
\* label is the reference, and image.width() fails on None
launch_scalePoint(point, image) ==
    IF IsNone(image) THEN Raised("AttributeError")
    ELSE Returned(IntOfProduct(point.x, image.w, LabelSize(2).w),
                  IntOfProduct(point.y, image.h, LabelSize(2).h))

LaunchInit ==
    /\ AppInit
    /\ probe = [call |-> "launch", image_left |-> NoImage, image_right |-> NoImage,
                begin |-> None, end |-> None, rect |-> QRectNull,
                is_drawing |-> FALSE, can_draw_rect |-> FALSE, raised |-> ""]

\* openImage(side) with the path the file dialog returned ("" when cancelled)
launch_openImage(side, imagePath) ==
    /\ probe.raised = ""
    /\ probe' = IF imagePath = "" THEN probe
                ELSE IF side = "left"
                     THEN [probe EXCEPT !.image_left = QImage(imagePath)]
                     ELSE [probe EXCEPT !.image_right = QImage(imagePath)]
    /\ UNCHANGED appVars

launch_enableDrawing ==
    /\ probe.raised = ""
    /\ probe' = [probe EXCEPT !.can_draw_rect = ~probe.can_draw_rect]
    /\ UNCHANGED appVars

launch_mousePressEvent(button, pos) ==
    LET p == launch_scalePoint(launch_mapFromParent(pos), probe.image_left)
    IN  /\ probe.raised = ""
        /\ probe' = IF /\ button = "LeftButton" /\ probe.can_draw_rect
                       /\ ~IsNone(probe.image_left) /\ ~IsNone(probe.image_right)
                    THEN [probe EXCEPT !.begin = Some(QPoint(p.x, p.y)),
                                       !.end = Some(QPoint(p.x, p.y)),
                                       !.rect = [x1 |-> p.x, y1 |-> p.y, x2 |-> p.x, y2 |-> p.y],
                                       !.is_drawing = TRUE]
                    ELSE probe
        /\ UNCHANGED appVars

launch_mouseMoveEvent(pos) ==
    LET p == launch_scalePoint(launch_mapFromParent(pos), probe.image_left)
    IN  /\ probe.raised = ""
        /\ probe' = IF probe.is_drawing /\ probe.can_draw_rect
                    THEN IF p.raised # "" THEN [probe EXCEPT !.raised = p.raised]
                         ELSE [probe EXCEPT !.end = Some(QPoint(p.x, p.y)),
                                            !.rect = [@ EXCEPT !.x2 = p.x, !.y2 = p.y]]
                    ELSE probe
        /\ UNCHANGED appVars

launch_mouseReleaseEvent(button, pos) ==
    LET p == launch_scalePoint(launch_mapFromParent(pos), probe.image_left)
    IN  /\ probe.raised = ""
        /\ probe' = IF button = "LeftButton" /\ probe.can_draw_rect
                    THEN IF p.raised # "" THEN [probe EXCEPT !.raised = p.raised]
                         ELSE [probe EXCEPT !.end = Some(QPoint(p.x, p.y)),
                                            !.rect = [@ EXCEPT !.x2 = p.x, !.y2 = p.y],
                                            !.is_drawing = FALSE]
                    ELSE probe
        /\ UNCHANGED appVars

\* the files the dialog of the dual viewer returns: none, or one that decodes
LaunchPaths == { "", "a.png", "b.png" }

\* the pointer positions of the dual viewer: the pixels of label_left and
\* of the margin to its left and above it
LaunchPositions ==
    { pos \in WindowPositions : /\ pos.x < LabelPos(0, 2).x + LabelSize(2).w
                                /\ pos.y < LabelPos(0, 2).y + LabelSize(2).h }

LaunchNext ==
    \/ \E side \in {"left", "right"}, imagePath \in LaunchPaths : launch_openImage(side, imagePath)
    \/ launch_enableDrawing
    \/ \E button \in Buttons, pos \in LaunchPositions : launch_mousePressEvent(button, pos)
    \/ \E pos \in LaunchPositions : launch_mouseMoveEvent(pos)
    \/ \E button \in Buttons, pos \in LaunchPositions : launch_mouseReleaseEvent(button, pos)

SpecLaunch == LaunchInit /\ [][LaunchNext]_vars

\* C30: in the dual-image viewer no handler raises, the rectangle changes
\* only in a step of a drag, and a left-button release with the rect tool
\* enabled but no drag in progress leaves the rectangle unchanged
Cex_C30_OnlyDragsChangeRectangle ==
    /\ [](probe.raised = "")
    /\ [][probe'.rect # probe.rect => (probe.is_drawing \/ probe'.is_drawing)]_vars
    /\ [][\A pos \in LaunchPositions :
             (probe.can_draw_rect /\ ~probe.is_drawing
                 /\ launch_mouseReleaseEvent("LeftButton", pos)) =>
                probe'.rect = probe.rect]_vars

====
